---- MODULE Spec2Model ----
(***************************************************************************)
(* Model of the calorie lookup of the meal-calorie backend: the USDA       *)
(* service (searchFoods, findBestMatch, extractCalories, getCalories), the *)
(* module-level result cache with its one-hour TTL, and the POST           *)
(* /get-calories route handler that maps a failed lookup to an HTTP status.*)
(*                                                                         *)
(* Text that the code inspects (query text, error messages, nutrient       *)
(* names) is a sequence of one-character strings, so that trim(),          *)
(* toLowerCase(), includes() and template-literal concatenation are        *)
(* computed as the code computes them.  Numbers with a fractional part     *)
(* (nutrient values, servings) are held in tenths.                         *)
(***************************************************************************)
EXTENDS Integers, Sequences, FiniteSets, TLC

VARIABLES
    cache,      \* the NodeCache instance: cache key -> [value, t]
    clock,      \* Date.now(), in seconds
    ticks,      \* number of clock advances so far
    calls,      \* the in-flight calls: slot -> call record
    fnName,     \* function-level check: the function applied
    fnIn,       \* function-level check: its input
    fnOut,      \* function-level check: its output
    fnPc,       \* function-level check: "ready" or "done"
    users,      \* the stored user documents, in the order they were saved
    uniqueEmail,\* whether the user collection rejects a second document with an email
    regs        \* the POST /auth/register requests in flight: slot -> request record

vars == <<cache, clock, ticks, calls, fnName, fnIn, fnOut, fnPc, users, uniqueEmail, regs>>

(***************************************************************************)
(* Bounds of the model.                                                    *)
(***************************************************************************)
MaxCalls == 2        \* calls that can be in flight at once
MaxTicks == 1        \* clock advances in one behaviour
MaxNutrients == 2    \* length of a nutrient list in the function-level check
MaxFoods == 2        \* length of a candidate list in the function-level check
MaxCal10 == 30       \* largest calorie value (in tenths) enumerated densely
MaxRegs == 3         \* register requests that can be in flight at once
MaxUsers == 3        \* register requests accepted while the store and the requests in flight hold fewer

(***************************************************************************)
(* Program constants.                                                      *)
(***************************************************************************)
stdTTL == 3600
DefaultPageSize == 25
EnergyNutrientId == 1008
ProteinNutrientId == 1003
FuseThreshold10 == 6
Status404 == 404
Status429 == 429
Status403 == 403
Status500 == 500
Status200 == 200

(***************************************************************************)
(* Text.                                                                   *)
(***************************************************************************)
\* the literal parts of the cache key template `search_${query}_${pageSize}`
KeyPrefix ==
    <<"s","e","a","r","c","h","_">>

KeySep ==
    <<"_">>

\* the messages of the errors thrown by searchFoods
MsgRateLimited ==
    <<"U","S","D","A"," ","A","P","I"," ","r","a","t","e"," ","l","i","m","i","t"," ","e","x","c","e","e","d","e","d","."," ","P","l","e","a","s","e"," ","t","r","y"," ","a","g","a","i","n"," ","l","a","t","e","r",".">>

MsgUnauthorized ==
    <<"I","n","v","a","l","i","d"," ","U","S","D","A"," ","A","P","I"," ","k","e","y"," ","o","r"," ","a","c","c","e","s","s"," ","d","e","n","i","e","d",".">>

MsgTransient ==
    <<"F","a","i","l","e","d"," ","t","o"," ","f","e","t","c","h"," ","f","o","o","d"," ","d","a","t","a"," ","f","r","o","m"," ","U","S","D","A"," ","A","P","I">>

\* the literal parts of the messages of the errors thrown by getCalories
MsgNotFoundPrefix ==
    <<"N","o"," ","n","u","t","r","i","t","i","o","n"," ","d","a","t","a"," ","f","o","u","n","d"," ","f","o","r"," ","\"">>

MsgNoMatchPrefix ==
    <<"C","o","u","l","d"," ","n","o","t"," ","f","i","n","d"," ","a"," ","s","u","i","t","a","b","l","e"," ","m","a","t","c","h"," ","f","o","r"," ","\"">>

MsgUnavailablePrefix ==
    <<"C","a","l","o","r","i","e"," ","i","n","f","o","r","m","a","t","i","o","n"," ","n","o","t"," ","a","v","a","i","l","a","b","l","e"," ","f","o","r"," ","\"">>

MsgQuote ==
    <<"\"">>

\* the substrings the route handler looks for in error.message
PatNotFound ==
    <<"N","o"," ","n","u","t","r","i","t","i","o","n"," ","d","a","t","a"," ","f","o","u","n","d">>

PatRateLimit ==
    <<"r","a","t","e"," ","l","i","m","i","t">>

\* the substring extractCalories looks for in a lower-cased nutrient name
PatEnergy ==
    <<"e","n","e","r","g","y">>

\* dish names sent by clients
DishApple ==
    <<"a","p","p","l","e">>

DishAppleSp ==
    <<" ","a","p","p","l","e"," ">>

DishRateLimit ==
    <<"r","a","t","e"," ","l","i","m","i","t">>

\* nutrient names sent by the nutrition source
DishNoData ==
    <<"N","o"," ","n","u","t","r","i","t","i","o","n"," ","d","a","t","a"," ","f","o","u","n","d">>

NameEnergy ==
    <<"E","n","e","r","g","y">>

NameEnergyKJ ==
    <<"E","N","E","R","G","Y"," ","(","k","J",")">>

NameProtein ==
    <<"P","r","o","t","e","i","n">>

UpperChars ==
    <<"A","B","C","D","E","F","G","H","I","J","K","L","M","N","O","P","Q","R","S","T","U","V","W","X","Y","Z">>

LowerChars ==
    <<"a","b","c","d","e","f","g","h","i","j","k","l","m","n","o","p","q","r","s","t","u","v","w","x","y","z">>

DigitChars ==
    <<"0","1","2","3","4","5","6","7","8","9">>

\* String.prototype.toLowerCase, one character
LowerChar(c) ==
    IF \E i \in 1..Len(UpperChars) : UpperChars[i] = c
    THEN LowerChars[CHOOSE i \in 1..Len(UpperChars) : UpperChars[i] = c]
    ELSE c

\* String.prototype.toLowerCase
ToLowerCase(s) ==
    [i \in 1..Len(s) |-> LowerChar(s[i])]

\* String.prototype.includes
Includes(s, sub) ==
    \E i \in 0..(Len(s) - Len(sub)) : SubSeq(s, i + 1, i + Len(sub)) = sub

\* String.prototype.trim: white space removed from both ends
RECURSIVE TrimStart(_)
TrimStart(s) ==
    IF s # <<>> /\ Head(s) = " " THEN TrimStart(Tail(s)) ELSE s

RECURSIVE TrimEnd(_)
TrimEnd(s) ==
    IF s # <<>> /\ s[Len(s)] = " " THEN TrimEnd(SubSeq(s, 1, Len(s) - 1)) ELSE s

Trim(s) ==
    TrimEnd(TrimStart(s))

\* the decimal text of a non-negative integer, as a template literal formats it
RECURSIVE NumToText(_)
NumToText(n) ==
    IF n < 10 THEN <<DigitChars[n + 1]>>
    ELSE NumToText(n \div 10) \o <<DigitChars[(n % 10) + 1]>>

\* Math.round of a value held in tenths: the nearest integer, halves up
MathRound10(x10) ==
    (x10 + 5) \div 10


(***************************************************************************)
(* Optional values.  A value that may be absent (undefined, null, a        *)
(* missing field) is a sequence of length at most one.                     *)
(***************************************************************************)
Nothing == <<>>

Some(x) == <<x>>

(***************************************************************************)
(* Data received from the nutrition source.                                *)
(***************************************************************************)
Nutrient(id, name, value) ==
    [nutrientId |-> id, nutrientName |-> name, value |-> value]

Food(id, description, nutrients) ==
    [fdcId |-> id, description |-> description, foodNutrients |-> nutrients]

\* energy 52.0 under the well-known id
FoodAppleRaw ==
    Food(1, "Apples, raw", Some(<<Nutrient(ProteinNutrientId, Some(NameProtein), Some(3)),
                                  Nutrient(EnergyNutrientId, Some(NameEnergy), Some(520))>>))

\* energy 87.4 found by name only
FoodApplePie ==
    Food(2, "Apple pie", Some(<<Nutrient(2047, Some(NameEnergyKJ), Some(874))>>))

\* protein only
FoodNoEnergy ==
    Food(3, "Apple flavor", Some(<<Nutrient(ProteinNutrientId, Some(NameProtein), Some(11))>>))

\* an energy entry of 0 kcal
FoodZeroEnergy ==
    Food(4, "Apple water", Some(<<Nutrient(EnergyNutrientId, Some(NameEnergy), Some(0))>>))

\* no nutrient list at all
FoodNoList ==
    Food(5, "Apple cider", Nothing)

\* the candidate lists the source answers with
FoodLists ==
    { <<>>, <<FoodNoEnergy, FoodApplePie>> }

\* the dish names clients ask for
DishNames ==
    { DishApple, DishAppleSp }

\* dish names that quote the phrases the route handler looks for
PhraseDishNames ==
    { DishRateLimit, DishNoData }

\* page sizes of direct searchFoods calls
PageSizes ==
    { DefaultPageSize }

\* servings of the calls in flight, in tenths: 1.5
ServingsSet ==
    { 15 }

\* composite scores Fuse can give a candidate, in tenths
FuseScores ==
    { 1, 5, 9 }

(***************************************************************************)
(* The result cache: new NodeCache({ stdTTL: 3600 }).                      *)
(***************************************************************************)
EmptyCache ==
    [k \in {} |-> [value |-> <<>>, t |-> 0]]

CacheGetNoExpiry(c, key, now) ==
    IF key \in DOMAIN c THEN Some(c[key].value) ELSE Nothing

\* cache.get(key): the stored value unless absent or older than the TTL
CacheGet(c, key, now) ==
    IF key \in DOMAIN c /\ now - c[key].t <= stdTTL
    THEN Some(c[key].value)
    ELSE Nothing

\* cache.set(key, value)
CacheSet(c, key, value, now) ==
    [k \in (DOMAIN c) \cup {key} |->
        IF k = key THEN [value |-> value, t |-> now] ELSE c[k]]

(***************************************************************************)
(* USDAService.searchFoods.                                                *)
(***************************************************************************)
\* const cacheKey = `search_${query}_${pageSize}`
CacheKey(query, pageSize) ==
    KeyPrefix \o query \o KeySep \o NumToText(pageSize)

IsCacheHitNonEmpty(cachedResult) ==
    cachedResult # Nothing /\ Len(cachedResult[1]) > 0

\* if (cachedResult): an array, empty or not, is truthy; undefined is not
IsCacheHit(cachedResult) ==
    cachedResult # Nothing

\* the params of the axios.get call
SearchRequest(query, pageSize) ==
    [query |-> Trim(query), pageSize |-> pageSize]

NoError ==
    [kind |-> "", message |-> <<>>]

Error(kind, message) ==
    [kind |-> kind, message |-> message]

Succeeded(foods) ==
    [ok |-> TRUE, foods |-> foods, error |-> NoError]

Failed(error) ==
    [ok |-> FALSE, foods |-> <<>>, error |-> error]

\* what the awaited axios.get can do: reject with an HTTP status, reject
\* without a response (network error, timeout), or resolve with a body
\* that is null, lacks the foods field, or carries a candidate list
Rejected(status) ==
    [kind |-> "status", status |-> status, data |-> Nothing]

NoResponse ==
    [kind |-> "noresponse", status |-> 0, data |-> Nothing]

Resolved(data) ==
    [kind |-> "ok", status |-> Status200, data |-> data]

AxiosOutcomes ==
    { Rejected(Status429), Rejected(Status403), Rejected(Status500), NoResponse,
      Resolved(Nothing), Resolved(Some([foods |-> Nothing])) }
    \cup { Resolved(Some([foods |-> Some(l)])) : l \in FoodLists }

\* error.response?.status
ResponseStatus(outcome) ==
    IF outcome.kind = "status" THEN outcome.status ELSE 0

ClassifySearchErrorNo403(status) ==
    IF status = Status429 THEN Error("RateLimited", MsgRateLimited)
    ELSE Error("Transient", MsgTransient)

\* the catch block of searchFoods
ClassifySearchError(status) ==
    IF status = Status429 THEN Error("RateLimited", MsgRateLimited)
    ELSE IF status = Status403 THEN Error("Unauthorized", MsgUnauthorized)
    ELSE Error("Transient", MsgTransient)

\* searchFoods from the point where the awaited request settles; reading
\* .foods of a null body raises inside the try block
SearchSettle(outcome) ==
    IF outcome.kind = "ok" /\ outcome.data # Nothing
    THEN LET body == outcome.data[1]
         IN  Succeeded(IF body.foods = Nothing THEN <<>> ELSE body.foods[1])
    ELSE Failed(ClassifySearchError(ResponseStatus(outcome)))

(***************************************************************************)
(* USDAService.findBestMatch.  Fuse is the library's: its scoring is an    *)
(* input, a score per candidate.                                           *)
(***************************************************************************)
\* the candidates that clear the threshold
FuseMatched(scores) ==
    { i \in DOMAIN scores : scores[i] <= FuseThreshold10 }

\* fuse.search(query): indices of the matched candidates, lowest score first
RECURSIVE FuseRank(_, _)
FuseRank(scores, left) ==
    IF left = {} THEN <<>>
    ELSE LET best == CHOOSE i \in left :
                        \A j \in left : scores[i] < scores[j] \/ (scores[i] = scores[j] /\ i <= j)
         IN  <<best>> \o FuseRank(scores, left \ {best})

FuseSearch(foods, scores) ==
    FuseRank(scores, FuseMatched(scores))

findBestMatchStrict(foods, scores) ==
    IF foods = Nothing \/ Len(foods[1]) = 0 THEN Nothing
    ELSE IF Len(foods[1]) = 1 THEN Some(foods[1][1])
    ELSE LET results == FuseSearch(foods[1], scores)
         IN  IF Len(results) > 0 THEN Some(foods[1][results[1]])
             ELSE Nothing

\* foods is an optional list; scores is what Fuse computes for (foods, query)
findBestMatch(foods, scores) ==
    IF foods = Nothing \/ Len(foods[1]) = 0 THEN Nothing
    ELSE IF Len(foods[1]) = 1 THEN Some(foods[1][1])
    ELSE LET results == FuseSearch(foods[1], scores)
         IN  IF Len(results) > 0 THEN Some(foods[1][results[1]])
             ELSE Some(foods[1][1])

(***************************************************************************)
(* USDAService.extractCalories.                                            *)
(***************************************************************************)
\* the predicate handed to Array.prototype.find
IsEnergyNutrient(nutrient) ==
    \/ nutrient.nutrientId = EnergyNutrientId
    \/ /\ nutrient.nutrientName # Nothing
       /\ Includes(ToLowerCase(nutrient.nutrientName[1]), PatEnergy)

\* Array.prototype.find: the first element that satisfies the predicate
FindEnergyNutrient(nutrients) ==
    LET hits == { i \in 1..Len(nutrients) : IsEnergyNutrient(nutrients[i]) }
    IN  IF hits = {} THEN Nothing
        ELSE Some(nutrients[CHOOSE i \in hits : \A j \in hits : i <= j])

\* energyNutrient.value as a condition: undefined and 0 are falsy
IsTruthyValue(value) ==
    value # Nothing /\ value[1] # 0

\* food is an optional candidate; the result is an optional number of tenths
extractCalories(food) ==
    IF food = Nothing THEN Nothing
    ELSE IF food[1].foodNutrients = Nothing THEN Nothing
    ELSE LET energyNutrient == FindEnergyNutrient(food[1].foodNutrients[1])
         IN  IF energyNutrient # Nothing /\ IsTruthyValue(energyNutrient[1].value)
             THEN Some(energyNutrient[1].value[1])
             ELSE Nothing

(***************************************************************************)
(* USDAService.getCalories.                                                *)
(***************************************************************************)
SourceLabel == "USDA FoodData Central"

CalculateRoundLast(caloriesPer100g10, servings10) ==
    [calories_per_serving |-> MathRound10(caloriesPer100g10),
     total_calories |-> (caloriesPer100g10 * servings10 + 50) \div 100]

\* the two Math.round lines; servings and caloriesPer100g are in tenths
Calculate(caloriesPer100g10, servings10) ==
    LET caloriesPerServing == MathRound10(caloriesPer100g10)
    IN  [calories_per_serving |-> caloriesPerServing,
         total_calories |-> MathRound10(caloriesPerServing * servings10)]

NotFoundError(dishName) ==
    Error("NotFound", MsgNotFoundPrefix \o dishName \o MsgQuote)

NoMatchError(dishName) ==
    Error("NoMatch", MsgNoMatchPrefix \o dishName \o MsgQuote)

UnavailableError(dishName) ==
    Error("CaloriesUnavailable", MsgUnavailablePrefix \o dishName \o MsgQuote)

\* how getCalories ends, with the locals bestMatch and caloriesPer100g it ended with
Returned(value, bestMatch, caloriesPer100g) ==
    [ok |-> TRUE, value |-> Some(value), error |-> NoError,
     bestMatch |-> bestMatch, caloriesPer100g |-> caloriesPer100g]

Thrown(error, bestMatch, caloriesPer100g) ==
    [ok |-> FALSE, value |-> Nothing, error |-> error,
     bestMatch |-> bestMatch, caloriesPer100g |-> caloriesPer100g]

getCaloriesMatchFirst(dishName, servings10, search, scores) ==
    IF ~search.ok THEN Thrown(search.error, Nothing, Nothing)
    ELSE LET bestMatch == findBestMatch(Some(search.foods), scores)
         IN  IF bestMatch = Nothing THEN Thrown(NoMatchError(dishName), bestMatch, Nothing)
             ELSE LET caloriesPer100g == extractCalories(bestMatch)
                  IN  IF caloriesPer100g = Nothing
                      THEN Thrown(UnavailableError(dishName), bestMatch, caloriesPer100g)
                      ELSE LET c == Calculate(caloriesPer100g[1], servings10)
                           IN  Returned([dish_name |-> dishName,
                                         servings |-> servings10,
                                         calories_per_serving |-> c.calories_per_serving,
                                         total_calories |-> c.total_calories,
                                         source |-> SourceLabel,
                                         matched_food |-> bestMatch[1].description,
                                         food_id |-> bestMatch[1].fdcId],
                                        bestMatch, caloriesPer100g)

\* getCalories from the point where searchFoods has settled with `search`
getCalories(dishName, servings10, search, scores) ==
    IF ~search.ok THEN Thrown(search.error, Nothing, Nothing)
    ELSE IF Len(search.foods) = 0 THEN Thrown(NotFoundError(dishName), Nothing, Nothing)
    ELSE LET bestMatch == findBestMatch(Some(search.foods), scores)
         IN  IF bestMatch = Nothing THEN Thrown(NoMatchError(dishName), bestMatch, Nothing)
             ELSE LET caloriesPer100g == extractCalories(bestMatch)
                  IN  IF caloriesPer100g = Nothing THEN Thrown(UnavailableError(dishName), bestMatch, caloriesPer100g)
                      ELSE LET c == Calculate(caloriesPer100g[1], servings10)
                           IN  Returned([dish_name |-> dishName,
                                         servings |-> servings10,
                                         calories_per_serving |-> c.calories_per_serving,
                                         total_calories |-> c.total_calories,
                                         source |-> SourceLabel,
                                         matched_food |-> bestMatch[1].description,
                                         food_id |-> bestMatch[1].fdcId],
                                        bestMatch, caloriesPer100g)

(***************************************************************************)
(* router.post('/get-calories').                                           *)
(***************************************************************************)
\* the status of the response, given how getCalories ended
HandlerStatus(lookup) ==
    IF lookup.ok THEN Status200
    ELSE IF Includes(lookup.error.message, PatNotFound) THEN Status404
    ELSE IF Includes(lookup.error.message, PatRateLimit) THEN Status429
    ELSE Status500


(***************************************************************************)
(* The calls in flight.  A call enters through the route handler (which    *)
(* calls getCalories, which calls searchFoods with the default page size)  *)
(* or calls searchFoods directly.  The only suspension point is the        *)
(* awaited request to the nutrition source.                                *)
(***************************************************************************)
Slots == 1..MaxCalls

CallInputs ==
    { [entry |-> "handler", query |-> d, pageSize |-> DefaultPageSize, servings |-> s] :
        d \in DishNames, s \in ServingsSet }
    \cup
    { [entry |-> "searchFoods", query |-> DishApple, pageSize |-> p, servings |-> 0] :
        p \in PageSizes }

IdleCall ==
    [pc |-> "idle", entry |-> "", query |-> <<>>, pageSize |-> 0, servings |-> 0,
     stale |-> FALSE, requests |-> 0, request |-> Nothing, outcome |-> Nothing,
     search |-> Nothing, lookup |-> Nothing, status |-> 0]

\* the scores Fuse can compute for a candidate list
ScoresFor(foods) ==
    IF Len(foods) >= 2 THEN [1..Len(foods) -> FuseScores]
    ELSE { [i \in 1..Len(foods) |-> 1] }

\* history: the store still holds an entry under the key that is past its TTL
HoldsStale(c, key, now) ==
    key \in DOMAIN c /\ now - c[key].t > stdTTL

\* the rest of the call once searchFoods has settled: the caller of a direct
\* call gets the search result, the route handler runs getCalories to its end
\* and answers
Finish(call, search, scores) ==
    IF call.entry = "handler"
    THEN LET lookup == getCalories(call.query, call.servings, search, scores)
         IN  [call EXCEPT !.pc = "done", !.search = Some(search),
                          !.lookup = Some(lookup), !.status = HandlerStatus(lookup)]
    ELSE [call EXCEPT !.pc = "done", !.search = Some(search)]

\* no finished call is waiting to hand its result over: the code after the
\* await runs to the response in one turn of the event loop, so nothing else
\* runs between a call's last step and its Return
Quiet ==
    \A s \in Slots : calls[s].pc # "done"

CacheAfterSettleAlways(c, key, search, now) ==
    CacheSet(c, key, search.foods, now)

\* the cache after the awaited request has settled: cache.set on success only
CacheAfterSettle(c, key, search, now) ==
    IF search.ok THEN CacheSet(c, key, search.foods, now) ELSE c

(***************************************************************************)
(* router.post('/register') and the user collection behind it.             *)
(***************************************************************************)
RegSlots == 1..MaxRegs

\* the email addresses clients register with
Emails ==
    { "ann@example.com", "bob@example.com" }

Status400 == 400
Status201 == 201

\* the status of a request whose save was rejected: it is answered by the
\* error handler, not by the route
RegErrorStatus ==
    Status500

IdleReg ==
    [pc |-> "idle", email |-> "", status |-> 0, created |-> FALSE]

\* User.findOne({ email }): whether a stored document has the email
UserFindOne(us, email) ==
    \E i \in 1..Len(us) : us[i].email = email

\* whether user.save() is rejected: only a collection that keeps emails
\* unique rejects, and only a second document with the same email
UserSaveRejected(us, unique, email) ==
    unique /\ UserFindOne(us, email)

\* user.save(): the document is appended to the collection
UserSave(us, email) ==
    Append(us, [id |-> Len(us) + 1, email |-> email])

AuthIdle ==
    /\ users = <<>>
    /\ uniqueEmail = FALSE
    /\ regs = [r \in RegSlots |-> IdleReg]

FnIdle ==
    /\ fnName = "none"
    /\ fnIn = <<>>
    /\ fnOut = <<>>
    /\ fnPc = "off"

Init ==
    /\ cache = EmptyCache
    /\ clock = 0
    /\ ticks = 0
    /\ calls = [s \in Slots |-> IdleCall]
    /\ FnIdle
    /\ AuthIdle

\* searchFoods up to its suspension point, or to its end on a cache hit
Begin(s, in) ==
    /\ Quiet
    /\ calls[s].pc = "idle"
    /\ \A o \in Slots : o < s => calls[o].pc # "idle"
    /\ LET cacheKey == CacheKey(in.query, in.pageSize)
           cachedResult == CacheGet(cache, cacheKey, clock)
           call == [IdleCall EXCEPT !.entry = in.entry, !.query = in.query,
                                    !.pageSize = in.pageSize, !.servings = in.servings,
                                    !.stale = HoldsStale(cache, cacheKey, clock)]
       IN  IF IsCacheHit(cachedResult)
           THEN \E scores \in ScoresFor(cachedResult[1]) :
                    calls' = [calls EXCEPT ![s] = Finish(call, Succeeded(cachedResult[1]), scores)]
           ELSE calls' = [calls EXCEPT ![s] =
                            [call EXCEPT !.pc = "awaiting", !.requests = 1,
                                         !.request = Some(SearchRequest(in.query, in.pageSize))]]
    /\ UNCHANGED <<cache, clock, ticks, fnName, fnIn, fnOut, fnPc, users, uniqueEmail, regs>>

\* the awaited request settles and the call runs to its end
Settle(s, outcome) ==
    /\ Quiet
    /\ calls[s].pc = "awaiting"
    /\ LET call == calls[s]
           cacheKey == CacheKey(call.query, call.pageSize)
           search == SearchSettle(outcome)
       IN  /\ cache' = CacheAfterSettle(cache, cacheKey, search, clock)
           /\ \E scores \in ScoresFor(search.foods) :
                 calls' = [calls EXCEPT ![s] =
                             Finish([call EXCEPT !.outcome = Some(outcome)], search, scores)]
    /\ UNCHANGED <<clock, ticks, fnName, fnIn, fnOut, fnPc, users, uniqueEmail, regs>>

\* the finished call hands its result to its caller
Return(s) ==
    /\ calls[s].pc = "done"
    /\ calls' = [calls EXCEPT ![s] = IdleCall]
    /\ UNCHANGED <<cache, clock, ticks, fnName, fnIn, fnOut, fnPc, users, uniqueEmail, regs>>

\* time passes, by an hour or more: every request has settled by then, since
\* the request times out after 10 seconds
TickSteps ==
    { stdTTL, stdTTL + 1 }

Tick(d) ==
    /\ \A s \in Slots : calls[s].pc = "idle"
    /\ ticks < MaxTicks
    /\ clock' = clock + d
    /\ ticks' = ticks + 1
    /\ UNCHANGED <<cache, calls, fnName, fnIn, fnOut, fnPc, users, uniqueEmail, regs>>

Next ==
    \/ \E s \in Slots, in \in CallInputs : Begin(s, in)
    \/ \E s \in Slots, outcome \in AxiosOutcomes : Settle(s, outcome)
    \/ \E s \in Slots : Return(s)
    \/ \E d \in TickSteps : Tick(d)

Spec ==
    Init /\ [][Next]_vars


(***************************************************************************)
(* Function-level specification: one function of the service applied to    *)
(* one input drawn from a bounded set.                                     *)
(***************************************************************************)
\* all sequences over S of length at most n
RECURSIVE SeqsUpTo(_, _)
SeqsUpTo(S, n) ==
    IF n = 0 THEN { <<>> }
    ELSE LET shorter == SeqsUpTo(S, n - 1)
         IN  shorter \cup { Append(q, x) : q \in { r \in shorter : Len(r) = n - 1 }, x \in S }

\* candidates of the function-level checks
FnFoods ==
    { FoodAppleRaw, FoodApplePie, FoodNoEnergy }

\* inputs of findBestMatch: an absent list, or a list with Fuse's scores for it
MatchInputs ==
    { [foods |-> Nothing, scores |-> <<>>] }
    \cup
    UNION { { [foods |-> Some(l), scores |-> sc] : sc \in [1..Len(l) -> FuseScores] } :
              l \in SeqsUpTo(FnFoods, MaxFoods) }

\* nutrient entries of the function-level checks
FnNutrients ==
    { Nutrient(id, name, value) :
        id \in { EnergyNutrientId, ProteinNutrientId },
        name \in { Nothing, Some(NameEnergyKJ), Some(NameProtein) },
        value \in { Nothing, Some(0), Some(874) } }

\* inputs of extractCalories: null, a candidate without a nutrient list, or
\* a candidate with one
ExtractInputs ==
    { Nothing, Some(FoodNoList) }
    \cup { Some(Food(9, "Candidate", Some(l))) : l \in SeqsUpTo(FnNutrients, MaxNutrients) }

\* inputs of the calculation: calories per 100 g and servings, in tenths
CalcInputs ==
    { [caloriesPer100g |-> c, servings |-> s] :
        c \in (0..MaxCal10) \cup { 874, 875, 2800 },
        s \in { 5, 10, 15, 20, 30 } }

\* inputs of a lookup through the route handler on a cache miss: the request
\* body, how the awaited request settles, and Fuse's scores
LookupFoodLists ==
    FoodLists \cup { <<FoodAppleRaw>>, <<FoodZeroEnergy>>, <<FoodNoList>>, <<FoodNoEnergy>> }

LookupOutcomes ==
    { Rejected(Status429), Rejected(Status403), Rejected(Status500), NoResponse }
    \cup { Resolved(Some([foods |-> Some(l)])) : l \in LookupFoodLists }

LookupInputs ==
    UNION { { [dish_name |-> d, servings |-> s, outcome |-> o, scores |-> sc] :
                d \in DishNames \cup PhraseDishNames,
                s \in { 20, 30, 15 },
                sc \in ScoresFor(SearchSettle(o).foods) } :
            o \in LookupOutcomes }

InitFn ==
    /\ cache = EmptyCache
    /\ clock = 0
    /\ ticks = 0
    /\ calls = [s \in Slots |-> IdleCall]
    /\ AuthIdle
    /\ fnPc = "ready"
    /\ fnOut = <<>>
    /\ \/ fnName = "findBestMatch" /\ fnIn \in MatchInputs
       \/ fnName = "extractCalories" /\ fnIn \in ExtractInputs
       \/ fnName = "Calculate" /\ fnIn \in CalcInputs
       \/ fnName = "getCalories" /\ fnIn \in LookupInputs

ApplyFindBestMatch ==
    /\ fnPc = "ready" /\ fnName = "findBestMatch"
    /\ fnOut' = findBestMatch(fnIn.foods, fnIn.scores)
    /\ fnPc' = "done"
    /\ UNCHANGED <<cache, clock, ticks, calls, fnName, fnIn, users, uniqueEmail, regs>>

ApplyExtractCalories ==
    /\ fnPc = "ready" /\ fnName = "extractCalories"
    /\ fnOut' = extractCalories(fnIn)
    /\ fnPc' = "done"
    /\ UNCHANGED <<cache, clock, ticks, calls, fnName, fnIn, users, uniqueEmail, regs>>

ApplyCalculate ==
    /\ fnPc = "ready" /\ fnName = "Calculate"
    /\ fnOut' = Calculate(fnIn.caloriesPer100g, fnIn.servings)
    /\ fnPc' = "done"
    /\ UNCHANGED <<cache, clock, ticks, calls, fnName, fnIn, users, uniqueEmail, regs>>

\* the route handler on a cache miss: searchFoods settles, getCalories runs
\* to its end, the handler answers
ApplyLookup ==
    /\ fnPc = "ready" /\ fnName = "getCalories"
    /\ LET search == SearchSettle(fnIn.outcome)
           lookup == getCalories(fnIn.dish_name, fnIn.servings, search, fnIn.scores)
       IN  fnOut' = [search |-> search, lookup |-> lookup, status |-> HandlerStatus(lookup)]
    /\ fnPc' = "done"
    /\ UNCHANGED <<cache, clock, ticks, calls, fnName, fnIn, users, uniqueEmail, regs>>

NextFn ==
    \/ ApplyFindBestMatch
    \/ ApplyExtractCalories
    \/ ApplyCalculate
    \/ ApplyLookup

SpecFn ==
    InitFn /\ [][NextFn]_vars


(***************************************************************************)
(* Registration: the requests in flight suspend at the awaited findOne and *)
(* at the awaited save; the collection is read or written when the awaited *)
(* operation completes.  Whether the collection keeps emails unique is     *)
(* fixed when the service starts.                                          *)
(***************************************************************************)
InitAuth ==
    /\ cache = EmptyCache
    /\ clock = 0
    /\ ticks = 0
    /\ calls = [s \in Slots |-> IdleCall]
    /\ FnIdle
    /\ users = <<>>
    /\ uniqueEmail \in BOOLEAN
    /\ regs = [r \in RegSlots |-> IdleReg]

\* requests in flight that have not answered yet
RegsInFlight ==
    Cardinality({ r \in RegSlots : regs[r].pc \in {"findOne", "save"} })

\* the handler is entered and awaits User.findOne({ email })
RegBegin(r, email) ==
    /\ regs[r].pc = "idle"
    /\ \A o \in RegSlots : o < r => regs[o].pc # "idle"
    /\ Len(users) + RegsInFlight < MaxUsers
    /\ regs' = [regs EXCEPT ![r] = [IdleReg EXCEPT !.pc = "findOne", !.email = email]]
    /\ UNCHANGED <<cache, clock, ticks, calls, fnName, fnIn, fnOut, fnPc, users, uniqueEmail>>

\* findOne completes: 400 if a user exists, else a new User is built and
\* the handler awaits user.save()
RegFound(r) ==
    /\ regs[r].pc = "findOne"
    /\ regs' = [regs EXCEPT ![r] =
                  IF UserFindOne(users, regs[r].email)
                  THEN [@ EXCEPT !.pc = "done", !.status = Status400]
                  ELSE [@ EXCEPT !.pc = "save"]]
    /\ UNCHANGED <<cache, clock, ticks, calls, fnName, fnIn, fnOut, fnPc, users, uniqueEmail>>

\* save completes: the document is stored and the handler answers 201, or
\* the save is rejected and the error handler answers
RegSaved(r) ==
    /\ regs[r].pc = "save"
    /\ IF UserSaveRejected(users, uniqueEmail, regs[r].email)
       THEN /\ regs' = [regs EXCEPT ![r] = [@ EXCEPT !.pc = "done", !.status = RegErrorStatus]]
            /\ users' = users
       ELSE /\ regs' = [regs EXCEPT ![r] =
                         [@ EXCEPT !.pc = "done", !.status = Status201, !.created = TRUE]]
            /\ users' = UserSave(users, regs[r].email)
    /\ UNCHANGED <<cache, clock, ticks, calls, fnName, fnIn, fnOut, fnPc, uniqueEmail>>

\* the response has been sent
RegReturn(r) ==
    /\ regs[r].pc = "done"
    /\ regs' = [regs EXCEPT ![r] = IdleReg]
    /\ UNCHANGED <<cache, clock, ticks, calls, fnName, fnIn, fnOut, fnPc, users, uniqueEmail>>

NextAuth ==
    \/ \E r \in RegSlots, email \in Emails : RegBegin(r, email)
    \/ \E r \in RegSlots : RegFound(r)
    \/ \E r \in RegSlots : RegSaved(r)
    \/ \E r \in RegSlots : RegReturn(r)

SpecAuth ==
    InitAuth /\ [][NextAuth]_vars

(***************************************************************************)
(* Properties.                                                             *)
(***************************************************************************)
\* the cache key of a call in flight
KeyOf(call) ==
    CacheKey(call.query, call.pageSize)

\* the store holds an entry under the key that is at most stdTTL old
Fresh(key) ==
    key \in DOMAIN cache /\ clock - cache[key].t <= stdTTL

\* step of slot s: searchFoods is entered
Begins(s) ==
    calls[s].pc = "idle" /\ calls'[s].pc # "idle"

\* step of slot s: the awaited request settles
Settles(s) ==
    calls[s].pc = "awaiting" /\ calls'[s].pc = "done"

\* C1 as stated: also among calls that overlap at the suspension point the
\* source is contacted at most once per key within the TTL of a successful
\* fetch: no call has a request outstanding for a key while the cache holds
\* a fresh entry for that key.
C1_ContactedOnceEvenOverlapping ==
    \A s \in Slots : calls[s].pc = "awaiting" => ~Fresh(KeyOf(calls[s]))

\* C1 amended: a call that enters searchFoods while the cache holds a fresh
\* entry for its key (any list, the empty one included) is served that list
\* at once and sends no request to the source, so calls made one after
\* another within the TTL contact the source at most once.
C1_SequentialCallsServedFromCache ==
    [][\A s \in Slots :
          (Begins(s) /\ Fresh(KeyOf(calls'[s]))) =>
              /\ calls'[s].pc = "done"
              /\ calls'[s].requests = 0
              /\ calls'[s].search = Some(Succeeded(cache[KeyOf(calls'[s])].value))
              /\ cache' = cache]_vars

\* C1 witness: a call was served the empty list from the cache without a request.
C1_Witness ==
    \E s \in Slots :
        /\ calls[s].pc = "done"
        /\ calls[s].requests = 0
        /\ calls[s].search = Some(Succeeded(<<>>))
        /\ Fresh(KeyOf(calls[s]))

\* C2 as stated: a call whose query differs only in leading or trailing white
\* space (same page size) from the query of a fresh cache entry is a cache
\* hit: it never goes on to contact the source.
C2_TrimmedQuerySharesEntry ==
    [][\A s \in Slots :
          (Begins(s) /\ calls'[s].pc = "awaiting") =>
              ~\E q \in DishNames :
                  /\ Trim(q) = Trim(calls'[s].query)
                  /\ Fresh(CacheKey(q, calls'[s].pageSize))]_vars

\* C3: on a cache miss 429 gives RateLimited, 403 gives Unauthorized, every
\* other failure of the request gives Transient, a successful response with
\* no candidates gives the empty list, and getCalories rethrows the error of
\* searchFoods as it is.
C3_FailureClassification ==
    \A s \in Slots :
        (calls[s].pc = "done" /\ calls[s].outcome # Nothing) =>
            LET o == calls[s].outcome[1]
                r == calls[s].search[1]
            IN  /\ (o.kind = "status" /\ o.status = 429) =>
                       (~r.ok /\ r.error.kind = "RateLimited")
                /\ (o.kind = "status" /\ o.status = 403) =>
                       (~r.ok /\ r.error.kind = "Unauthorized")
                /\ (\/ (o.kind = "status" /\ o.status \notin {429, 403})
                    \/ o.kind = "noresponse"
                    \/ (o.kind = "ok" /\ o.data = Nothing)) =>
                       (~r.ok /\ r.error.kind = "Transient")
                /\ (o.kind = "ok" /\ o.data # Nothing) =>
                       /\ r.ok
                       /\ (o.data[1].foods \in {Nothing, Some(<<>>)}) => r.foods = <<>>
                /\ (calls[s].entry = "handler" /\ ~r.ok) =>
                       /\ ~calls[s].lookup[1].ok
                       /\ calls[s].lookup[1].error = r.error
                       /\ calls[s].lookup[1].error.kind \in {"RateLimited", "Unauthorized", "Transient"}

\* C3 witness: a lookup through the handler ended with the RateLimited error
\* of searchFoods after the source answered 429.
C3_Witness ==
    \E s \in Slots :
        /\ calls[s].pc = "done"
        /\ calls[s].entry = "handler"
        /\ calls[s].outcome = Some(Rejected(Status429))
        /\ calls[s].lookup[1].error = Error("RateLimited", MsgRateLimited)

\* C4: once the search has succeeded getCalories ends in exactly one outcome,
\* decided in the order search, match, extract, calculate: NotFound for no
\* candidates, else NoMatch when the matcher returned nothing, else
\* CaloriesUnavailable when the extractor returned nothing, else a complete
\* result that names the matched candidate and the fixed source label; a
\* result and a failure never come together.
C4_FirstFailingStageDecides ==
    \A s \in Slots :
        (calls[s].pc = "done" /\ calls[s].entry = "handler") =>
            LET r == calls[s].search[1]
                l == calls[s].lookup[1]
            IN  /\ l.ok <=> (l.value # Nothing)
                /\ l.ok <=> (l.error = NoError)
                /\ r.ok =>
                     IF Len(r.foods) = 0 THEN ~l.ok /\ l.error.kind = "NotFound"
                     ELSE IF l.bestMatch = Nothing THEN ~l.ok /\ l.error.kind = "NoMatch"
                     ELSE IF extractCalories(l.bestMatch) = Nothing
                          THEN ~l.ok /\ l.error.kind = "CaloriesUnavailable"
                     ELSE /\ l.ok
                          /\ l.value[1].matched_food = l.bestMatch[1].description
                          /\ l.value[1].food_id = l.bestMatch[1].fdcId
                          /\ l.value[1].source = "USDA FoodData Central"
                          /\ l.value[1].dish_name = calls[s].query
                          /\ \E i \in 1..Len(r.foods) : r.foods[i] = l.bestMatch[1]

\* C4 witness: a lookup returned a complete result for a candidate of a
\* two-candidate list.
C4_Witness ==
    \E s \in Slots :
        /\ calls[s].pc = "done"
        /\ calls[s].entry = "handler"
        /\ calls[s].lookup[1].ok
        /\ Len(calls[s].search[1].foods) = 2
        /\ calls[s].lookup[1].value[1].matched_food = "Apple pie"

\* the lowest score Fuse gave
MinScore(scores) ==
    CHOOSE m \in { scores[i] : i \in DOMAIN scores } :
        \A i \in DOMAIN scores : m <= scores[i]

\* C5: findBestMatch returns nothing only for an absent or empty list; for a
\* non-empty list it returns an element of it: the sole element of a list of
\* one, a lowest-score candidate when some candidate clears the threshold,
\* the first candidate when none does; and getCalories never fails with
\* NoMatch when the search returned a candidate.
C5_BestEffortMatch ==
    /\ (fnPc = "done" /\ fnName = "findBestMatch") =>
          IF fnIn.foods = Nothing \/ Len(fnIn.foods[1]) = 0 THEN fnOut = Nothing
          ELSE LET foods == fnIn.foods[1]
                   scores == fnIn.scores
               IN  /\ fnOut # Nothing
                   /\ \E i \in 1..Len(foods) : fnOut[1] = foods[i]
                   /\ Len(foods) = 1 => fnOut[1] = foods[1]
                   /\ (Len(foods) > 1 /\ \E i \in 1..Len(foods) : scores[i] <= FuseThreshold10) =>
                          \E i \in 1..Len(foods) :
                              scores[i] = MinScore(scores) /\ fnOut[1] = foods[i]
                   /\ (Len(foods) > 1 /\ \A i \in 1..Len(foods) : scores[i] > FuseThreshold10) =>
                          fnOut[1] = foods[1]
    /\ (fnPc = "done" /\ fnName = "getCalories"
            /\ fnOut.search.ok /\ Len(fnOut.search.foods) > 0) =>
          fnOut.lookup.error.kind # "NoMatch"

\* C5 witness: of two different candidates none cleared the threshold and the
\* first was returned.
C5_Witness ==
    /\ fnPc = "done" /\ fnName = "findBestMatch"
    /\ fnIn.foods # Nothing
    /\ Len(fnIn.foods[1]) = 2
    /\ fnIn.foods[1][1] # fnIn.foods[1][2]
    /\ \A i \in 1..2 : fnIn.scores[i] > FuseThreshold10
    /\ fnOut = Some(fnIn.foods[1][1])

\* C6 as stated: extractCalories returns the value of the first qualifying
\* entry whenever that value is present, for every numeric value including
\* 0, and returns nothing otherwise.
C6_PresentValueReturned ==
    (fnPc = "done" /\ fnName = "extractCalories") =>
        LET nutrients == IF fnIn = Nothing \/ fnIn[1].foodNutrients = Nothing
                         THEN <<>> ELSE fnIn[1].foodNutrients[1]
            energy == FindEnergyNutrient(nutrients)
        IN  IF energy # Nothing /\ energy[1].value # Nothing
            THEN fnOut = energy[1].value
            ELSE fnOut = Nothing

\* C7 as stated: totalCalories is the rounded per-serving value multiplied by
\* servings, for whole and fractional servings alike.
C7_TotalIsProduct ==
    (fnPc = "done" /\ fnName = "Calculate") =>
        fnOut.total_calories * 10 = fnOut.calories_per_serving * fnIn.servings

\* x is the integer nearest to y10 tenths, halves going up
Nearest(x, y10) ==
    10 * x - 5 <= y10 /\ y10 < 10 * x + 5

\* C7 amended: caloriesPerServing is caloriesPer100g rounded to the nearest
\* integer and totalCalories is that rounded value times servings, rounded
\* again to the nearest integer; for whole servings this is the exact
\* product, e.g. (280, 2) gives 280 and 560 and (87.4, 3) gives 87 and 261.
C7_RoundThenMultiplyThenRound ==
    /\ (fnPc = "done" /\ fnName = "Calculate") =>
          /\ Nearest(fnOut.calories_per_serving, fnIn.caloriesPer100g)
          /\ Nearest(fnOut.total_calories, fnOut.calories_per_serving * fnIn.servings)
          /\ fnIn.servings % 10 = 0 =>
                fnOut.total_calories = fnOut.calories_per_serving * (fnIn.servings \div 10)
          /\ (fnIn.caloriesPer100g = 2800 /\ fnIn.servings = 20) =>
                (fnOut.calories_per_serving = 280 /\ fnOut.total_calories = 560)
          /\ (fnIn.caloriesPer100g = 874 /\ fnIn.servings = 30) =>
                (fnOut.calories_per_serving = 87 /\ fnOut.total_calories = 261)
    /\ (fnPc = "done" /\ fnName = "getCalories" /\ fnOut.lookup.ok) =>
          LET v == fnOut.lookup.value[1]
          IN  /\ Nearest(v.calories_per_serving, fnOut.lookup.caloriesPer100g[1])
              /\ Nearest(v.total_calories, v.calories_per_serving * fnIn.servings)

\* C7 witness: 87.4 kcal and 1.5 servings gave 87 and 131.
C7_Witness ==
    /\ fnPc = "done" /\ fnName = "Calculate"
    /\ fnIn = [caloriesPer100g |-> 874, servings |-> 15]
    /\ fnOut = [calories_per_serving |-> 87, total_calories |-> 131]

\* C8: a call is served from the cache only while the entry under its key is
\* at most stdTTL old and is then served exactly the stored list; otherwise
\* it is a miss that sends one request, and when that request succeeds the
\* entry is replaced by the fetched list, which an immediate query returns.
C8_ServedOnlyWithinTTL ==
    [][\A s \in Slots :
          /\ Begins(s) =>
                IF Fresh(KeyOf(calls'[s]))
                THEN /\ calls'[s].pc = "done"
                     /\ calls'[s].search[1].foods = cache[KeyOf(calls'[s])].value
                ELSE /\ calls'[s].pc = "awaiting"
                     /\ calls'[s].requests = 1
                     /\ calls'[s].search = Nothing
          /\ (Settles(s) /\ calls'[s].search[1].ok) =>
                /\ cache'[KeyOf(calls[s])] = [value |-> calls'[s].search[1].foods, t |-> clock]
                /\ CacheGet(cache', KeyOf(calls[s]), clock') = Some(calls'[s].search[1].foods)]_vars

\* C8 witness: a call found an entry past its TTL under its key, fetched
\* again, and the entry now holds the newly fetched list.
C8_Witness ==
    \E s \in Slots :
        /\ calls[s].pc = "done"
        /\ calls[s].stale
        /\ calls[s].requests = 1
        /\ calls[s].search[1].ok
        /\ cache[KeyOf(calls[s])] = [value |-> calls[s].search[1].foods, t |-> clock]
        /\ clock > stdTTL

\* C9 as stated: the status of a failed lookup depends on the failure kind
\* only: 404 exactly for NotFound, 429 exactly for RateLimited, 500 for every
\* other failure, whatever the dish name.
C9_StatusByFailureKind ==
    (fnPc = "done" /\ fnName = "getCalories" /\ ~fnOut.lookup.ok) =>
        LET kind == fnOut.lookup.error.kind
        IN  fnOut.status = IF kind = "NotFound" THEN 404
                           ELSE IF kind = "RateLimited" THEN 429
                           ELSE 500

\* C10: a call whose request fails leaves the cache as it was, so that the
\* next identical query is a miss again if it was one before; and no call
\* sends more than one request.
C10_FailureLeavesCache ==
    [][\A s \in Slots :
          /\ (Settles(s) /\ ~calls'[s].search[1].ok) =>
                /\ cache' = cache
                /\ ~Fresh(KeyOf(calls[s])) =>
                      CacheGet(cache', KeyOf(calls[s]), clock') = Nothing
          /\ calls'[s].requests <= 1]_vars

\* C10 witness: a request failed and the cache holds nothing under its key.
C10_Witness ==
    \E s \in Slots :
        /\ calls[s].pc = "done"
        /\ calls[s].requests = 1
        /\ ~calls[s].search[1].ok
        /\ KeyOf(calls[s]) \notin DOMAIN cache


====
